---- MODULE Spec2Model ----
(***************************************************************************)
(* Resource lifecycle adapters of the azurerm provider:                    *)
(*   - azurerm_container_registry_cache_rule (ContainerRegistryCacheRule)  *)
(*   - azurerm_container_app_environment (ContainerAppEnvironmentResource) *)
(* together with the remote services they talk to.                         *)
(*                                                                         *)
(* Resource IDs are modelled as the sequence of their path segments        *)
(* ("/subscriptions/s1/resourceGroups/g1" is <<"subscriptions", "s1",      *)
(* "resourceGroups", "g1">>); the empty sequence is the empty string.      *)
(* A nil pointer to a string is the string NilStr, a nil pointer to a      *)
(* struct is the record Nil.                                               *)
(***************************************************************************)
EXTENDS Integers, Sequences, FiniteSets, TLC

VARIABLES
    rtype,      \* the resource type the host runtime drives in this run
    crRemote,   \* cache rules held by the registry service, by cache rule ID
    crData,     \* ResourceData of every cache rule resource instance
    caeRemote,  \* managed environments held by the service, by environment ID
    caeData,    \* ResourceData of every container app environment instance
    last,       \* what the last lifecycle call did (its calls, result, request)
    probe       \* the input and the result of a pure function under test

lifecycle == <<rtype, crRemote, crData, caeRemote, caeData, last>>

vars == <<rtype, crRemote, crData, caeRemote, caeData, last, probe>>

----------------------------------------------------------------------------
(* Values shared by both resources *)

Nil == [nil |-> TRUE]
NilStr == "<nil>"
NoId == <<>>

\* the cache rule instances of a configuration
Inst == {"test", "import"}

\* metadata.Client.Account.SubscriptionId
subscriptionId == "s1"

Subscriptions == {"s1"}
ResourceGroups == {"g1"}

\* HTTP status of a response; StatusNone is a nil *http.Response
StatusOK == "200"
StatusNotFound == "404"
StatusError == "500"
StatusNone == "nil"

\* response.WasNotFound: the response is present and its status is 404
WasNotFound(status) == status # StatusNone /\ status = StatusNotFound

\* the outcome of a remote Get on a store: the object when it is there, 404 when
\* it is not, and whatever the fault injects (a failed call, with or without
\* a response)
GetResponse(store, id, fault) ==
    IF fault = "error" THEN [status |-> StatusError, err |-> TRUE, model |-> Nil]
    ELSE IF fault = "noresponse" THEN [status |-> StatusNone, err |-> TRUE, model |-> Nil]
    ELSE IF id \notin DOMAIN store \/ store[id] = Nil
         THEN [status |-> StatusNotFound, err |-> TRUE, model |-> Nil]
    ELSE IF fault = "nomodel" THEN [status |-> StatusOK, err |-> FALSE, model |-> Nil]
    ELSE IF fault = "noprops"
         THEN [status |-> StatusOK, err |-> FALSE,
               model |-> [store[id] EXCEPT !.Properties = Nil]]
    ELSE [status |-> StatusOK, err |-> FALSE, model |-> store[id]]

\* what can go wrong in a lifecycle call: one of its remote calls fails, or
\* answers in a shape the code has a branch for. "error", "noresponse",
\* "nomodel" and "noprops" hit the Get of the resource, "registry" the Get of
\* the parent registry, "poll" the create, update or delete call
GetFaults == {"none", "error", "noresponse", "nomodel", "noprops"}
CacheRuleFaults == GetFaults \cup {"registry", "poll"}

NoRequest == [none |-> TRUE]

----------------------------------------------------------------------------
(* Container registry cache rule: identifiers *)

RegistryNames == {"r1", "r0"}
CacheRuleNames == {"n1", "n2"}
SourceRepos == {"docker.io/hello-world", "docker.io/library/ubuntu"}
TargetRepos == {"target"}
CredentialSetIds == {"", "c1"}

\* registries.NewRegistryID
NewRegistryID(sub, rg, name) ==
    [SubscriptionId |-> sub, ResourceGroupName |-> rg, RegistryName |-> name]

\* registries.RegistryId.ID
RegistryID_ID(id) ==
    <<"subscriptions", id.SubscriptionId, "resourceGroups", id.ResourceGroupName,
      "providers", "Microsoft.ContainerRegistry", "registries", id.RegistryName>>

\* registries.ParseRegistryID
ParseRegistryID(s) ==
    IF /\ Len(s) = 8
       /\ s[1] = "subscriptions" /\ s[3] = "resourceGroups" /\ s[5] = "providers"
       /\ s[6] = "Microsoft.ContainerRegistry" /\ s[7] = "registries"
       /\ s[2] # "" /\ s[4] # "" /\ s[8] # ""
    THEN [ok |-> TRUE, id |-> NewRegistryID(s[2], s[4], s[8])]
    ELSE [ok |-> FALSE, id |-> Nil]

\* cacherules.NewCacheRuleID
NewCacheRuleID(sub, rg, registry, name) ==
    [SubscriptionId |-> sub, ResourceGroupName |-> rg, RegistryName |-> registry,
     CacheRuleName |-> name]

\* cacherules.CacheRuleId.ID
CacheRuleID_ID(id) ==
    <<"subscriptions", id.SubscriptionId, "resourceGroups", id.ResourceGroupName,
      "providers", "Microsoft.ContainerRegistry", "registries", id.RegistryName,
      "cacheRules", id.CacheRuleName>>

\* cacherules.ParseCacheRuleID
ParseCacheRuleID(s) ==
    IF /\ Len(s) = 10
       /\ s[1] = "subscriptions" /\ s[3] = "resourceGroups" /\ s[5] = "providers"
       /\ s[6] = "Microsoft.ContainerRegistry" /\ s[7] = "registries"
       /\ s[9] = "cacheRules"
       /\ s[2] # "" /\ s[4] # "" /\ s[8] # "" /\ s[10] # ""
    THEN [ok |-> TRUE, id |-> NewCacheRuleID(s[2], s[4], s[8], s[10])]
    ELSE [ok |-> FALSE, id |-> Nil]

\* the values container_registry_id can take in a configuration (the schema
\* validates it with registries.ValidateRegistryID)
RegistryIdStrings ==
    {RegistryID_ID(NewRegistryID(s, g, r)) :
        s \in Subscriptions, g \in ResourceGroups, r \in RegistryNames}

\* the registries that exist remotely
ExistingRegistries ==
    {RegistryID_ID(NewRegistryID(s, g, "r1")) : s \in Subscriptions, g \in ResourceGroups}

\* every cache rule ID the provider can address
CacheRuleIdStrings ==
    {CacheRuleID_ID(NewCacheRuleID(s, g, r, n)) :
        s \in Subscriptions, g \in ResourceGroups, r \in RegistryNames, n \in CacheRuleNames}

----------------------------------------------------------------------------
(* Container registry cache rule: ResourceData and the remote service *)

\* the arguments of the schema, and the persisted identifier
CacheRuleEmptyData ==
    [id |-> NoId, name |-> "", credential_set_id |-> "", container_registry_id |-> NoId,
     source_repo |-> "", target_repo |-> ""]

CacheRuleConfigs ==
    [name : CacheRuleNames, credential_set_id : CredentialSetIds,
     container_registry_id : RegistryIdStrings,
     source_repo : SourceRepos, target_repo : TargetRepos]

\* ResourceData holding a planned configuration, no identifier yet
CacheRulePlanned(cfg) ==
    [id |-> NoId, name |-> cfg.name, credential_set_id |-> cfg.credential_set_id,
     container_registry_id |-> cfg.container_registry_id,
     source_repo |-> cfg.source_repo, target_repo |-> cfg.target_repo]

\* registryClient.Get: fails when the registry does not exist or the call fails
RegistryGetFails(idString, fault) == fault = "registry" \/ idString \notin ExistingRegistries

\* the result of a lifecycle call: the error it returns ("nil" for none), the
\* remote calls it issued and its SetID call, in order, the status of the response its Get received, whether
\* it marked the resource as gone, the request it sent, how its mutating call
\* failed, the timeout budget its context carries, and the ResourceData and
\* remote store it leaves
Result(err, calls, status, gone, request, remoteErr, budget, data, remote) ==
    [err |-> err, calls |-> calls, status |-> status, gone |-> gone,
     request |-> request, remoteErr |-> remoteErr, budget |-> budget,
     data |-> data, remote |-> remote]

\* metadata.MarkAsGone: drops the identifier, returns no error
MarkAsGone(data) == [data |-> [data EXCEPT !.id = NoId], err |-> "nil"]

\* metadata.SetID
SetID(data, idString) == [data EXCEPT !.id = idString]

\* the existence check without its second test: an existing rule is adopted
CacheRuleExistenceCheckAdopting(resp) ==
    IF resp.err /\ ~WasNotFound(resp.status) THEN "CheckingPresence" ELSE "nil"

\* Create, lines 106-116: the existence check on the response of Get
CacheRuleExistenceCheck(resp) ==
    IF resp.err /\ ~WasNotFound(resp.status) THEN "CheckingPresence"
    ELSE IF ~WasNotFound(resp.status) THEN "RequiresImport"
    ELSE "nil"

\* the parameters with the two repositories exchanged
CacheRuleCreateParametersSwapped(id, sourceRepo, targetRepo) ==
    [Name |-> id.CacheRuleName,
     Properties |-> [SourceRepository |-> targetRepo,
                     TargetRepository |-> sourceRepo,
                     CredentialSetResourceId |-> NilStr]]

\* Create, lines 119-130: the parameters of the create call
CacheRuleCreateParameters(id, sourceRepo, targetRepo) ==
    [Name |-> id.CacheRuleName,
     Properties |-> [SourceRepository |-> sourceRepo,
                     TargetRepository |-> targetRepo,
                     CredentialSetResourceId |-> NilStr]]

\* a Create that persists the identifier before it knows how the create call
\* ended
CacheRuleCreateSetIDEarly(data, idString, pollErr) == SetID(data, idString)

\* Create, lines 132-136: the identifier is persisted once CreateThenPoll has
\* returned without an error
CacheRuleCreateSetID(data, idString, pollErr) ==
    IF pollErr # "none" THEN data ELSE SetID(data, idString)

\* ContainerRegistryCacheRule.Create, on the ResourceData `data` of the plan
CacheRuleCreate(data, remote, fault) ==
    LET parsed == ParseRegistryID(data.container_registry_id)
        registryId == parsed.id
        id == NewCacheRuleID(subscriptionId, registryId.ResourceGroupName,
                             registryId.RegistryName, data.name)
        existing == GetResponse(remote, CacheRuleID_ID(id), fault)
        check == CacheRuleExistenceCheck(existing)
        parameters == CacheRuleCreateParameters(id, data.source_repo, data.target_repo)
    IN  IF ~parsed.ok
        THEN Result("ParseRegistryID", <<>>, "none", FALSE, NoRequest, "none",
                    "create", data, remote)
        ELSE IF RegistryGetFails(data.container_registry_id, fault)
        THEN Result("GettingRegistry", <<"Registries.Get">>, "none", FALSE, NoRequest,
                    "none", "create", data, remote)
        ELSE IF check # "nil"
        THEN Result(check, <<"Registries.Get", "CacheRules.Get">>, existing.status,
                    FALSE, NoRequest, "none", "create", data, remote)
        ELSE IF fault = "poll"
        THEN Result("Creating", <<"Registries.Get", "CacheRules.Get", "CreateThenPoll">>,
                    existing.status, FALSE, parameters, "error", "create",
                    CacheRuleCreateSetID(data, CacheRuleID_ID(id), "error"), remote)
        ELSE Result("nil",
                    <<"Registries.Get", "CacheRules.Get", "CreateThenPoll", "SetID">>,
                    existing.status, FALSE, parameters, "none", "create",
                    CacheRuleCreateSetID(data, CacheRuleID_ID(id), "none"),
                    [remote EXCEPT ![CacheRuleID_ID(id)] = parameters])

\* Read, lines 157-164: what Read does with a failed Get
CacheRuleReadGetError(resp) ==
    IF WasNotFound(resp.status) THEN "gone" ELSE "Retrieving"

\* Read, line 167: the registry ID written into container_registry_id
CacheRuleReadRegistryId(id) ==
    NewRegistryID(id.SubscriptionId, id.SubscriptionId, id.RegistryName)

\* Read, lines 166-175: the fields set from the identifier and the response
CacheRuleReadState(data, id, model) ==
    LET named == [data EXCEPT !.name = id.CacheRuleName,
                              !.container_registry_id =
                                  RegistryID_ID(CacheRuleReadRegistryId(id))]
    IN  IF model # Nil /\ model.Properties # Nil
        THEN [named EXCEPT !.source_repo = model.Properties.SourceRepository,
                           !.target_repo = model.Properties.TargetRepository]
        ELSE named

\* ContainerRegistryCacheRule.Read
CacheRuleRead(data, remote, getFault) ==
    LET parsed == ParseCacheRuleID(data.id)
        id == parsed.id
        resp == GetResponse(remote, data.id, getFault)
    IN  IF ~parsed.ok
        THEN Result("ParseCacheRuleID", <<>>, "none", FALSE, NoRequest, "none",
                    "read", data, remote)
        ELSE IF resp.err
        THEN IF CacheRuleReadGetError(resp) = "gone"
             THEN Result(MarkAsGone(data).err, <<"CacheRules.Get">>, resp.status, TRUE,
                         NoRequest, "none", "read", MarkAsGone(data).data, remote)
             ELSE Result("Retrieving", <<"CacheRules.Get">>, resp.status, FALSE,
                         NoRequest, "none", "read", data, remote)
        ELSE Result("nil", <<"CacheRules.Get">>, resp.status, FALSE, NoRequest, "none",
                    "read", CacheRuleReadState(data, id, resp.model), remote)

\* Update, lines 198-200: the parameters of the update call
CacheRuleUpdateParameters(data) ==
    [Properties |-> [CredentialSetResourceId |-> NilStr]]

\* cacheRulesClient.UpdateThenPoll: a PATCH of the properties that are set;
\* fails with 404 when the rule does not exist
CacheRuleUpdateThenPoll(remote, idString, parameters, pollFault) ==
    IF pollFault = "poll" THEN [err |-> "error", remote |-> remote]
    ELSE IF remote[idString] = Nil THEN [err |-> "notfound", remote |-> remote]
    ELSE IF parameters.Properties.CredentialSetResourceId = NilStr
    THEN [err |-> "none", remote |-> remote]
    ELSE [err |-> "none",
          remote |-> [remote EXCEPT ![idString].Properties.CredentialSetResourceId =
                                        parameters.Properties.CredentialSetResourceId]]

\* Update, line 187: the timeout budget of the context Update runs under
CacheRuleUpdateBudget == "read"

\* ContainerRegistryCacheRule.Update, on the ResourceData `data` of the plan
CacheRuleUpdate(data, remote, pollFault) ==
    LET parsed == ParseCacheRuleID(data.id)
        parameters == CacheRuleUpdateParameters(data)
        polled == CacheRuleUpdateThenPoll(remote, data.id, parameters, pollFault)
    IN  IF ~parsed.ok
        THEN Result("ParseCacheRuleID", <<>>, "none", FALSE, NoRequest, "none",
                    CacheRuleUpdateBudget, data, remote)
        ELSE IF polled.err # "none"
        THEN Result("Updating", <<"UpdateThenPoll">>, "none", FALSE, parameters,
                    polled.err, CacheRuleUpdateBudget, data, remote)
        ELSE Result("nil", <<"UpdateThenPoll", "SetID">>, "none", FALSE, parameters, "none",
                    CacheRuleUpdateBudget, SetID(data, CacheRuleID_ID(parsed.id)),
                    polled.remote)

\* DeleteThenPoll: removes the object; on an object that is already gone the
\* service answers either with success (204) or with a not-found failure
DeleteOutcomes == {"ok", "notfound", "error"}

DeleteThenPoll(remote, idString, outcome) ==
    IF outcome = "error" THEN [err |-> "error", remote |-> remote]
    ELSE IF remote[idString] = Nil
    THEN [err |-> IF outcome = "notfound" THEN "notfound" ELSE "none", remote |-> remote]
    ELSE [err |-> "none", remote |-> [remote EXCEPT ![idString] = Nil]]

\* Delete, lines 226-230: the error Delete returns for a failed DeleteThenPoll
CacheRuleDeleteError(pollErr) == IF pollErr # "none" THEN "Deleting" ELSE "nil"

\* ContainerRegistryCacheRule.Delete
CacheRuleDelete(data, remote, outcome) ==
    LET parsed == ParseCacheRuleID(data.id)
        polled == DeleteThenPoll(remote, data.id, outcome)
    IN  IF ~parsed.ok
        THEN Result("ParseCacheRuleID", <<>>, "none", FALSE, NoRequest, "none",
                    "delete", data, remote)
        ELSE Result(CacheRuleDeleteError(polled.err), <<"DeleteThenPoll">>, "none",
                    FALSE, NoRequest, polled.err, "delete", data, polled.remote)

----------------------------------------------------------------------------
(* Container app environment: identifiers, ResourceData, remote services *)

LogDestinationMissing == ""
LogDestinationNone == "none"
LogDestinationLogAnalytics == "log-analytics"
LogDestinationAzureMonitor == "azure-monitor"

\* the values the schema accepts for log_destination, and the omitted value
LogDestinations ==
    {LogDestinationMissing, LogDestinationNone, LogDestinationLogAnalytics,
     LogDestinationAzureMonitor}

EnvironmentNames == {"e1"}
Locations == {"westeurope"}
DaprConnectionStrings == {"", "d1"}
WorkspaceNames == {"w1", "w2"}
TagSets == {{}}

\* workspaces.WorkspaceId.ID
WorkspaceID_ID(name) ==
    <<"subscriptions", subscriptionId, "resourceGroups", "g1",
      "providers", "Microsoft.OperationalInsights", "workspaces", name>>

\* workspaces.ParseWorkspaceID
ParseWorkspaceID(s) ==
    IF /\ Len(s) = 8
       /\ s[1] = "subscriptions" /\ s[3] = "resourceGroups" /\ s[5] = "providers"
       /\ s[6] = "Microsoft.OperationalInsights" /\ s[7] = "workspaces"
       /\ s[2] # "" /\ s[4] # "" /\ s[8] # ""
    THEN [ok |-> TRUE, name |-> s[8]]
    ELSE [ok |-> FALSE, name |-> ""]

\* the values log_analytics_workspace_id can take: omitted, or a workspace ID
WorkspaceIdStrings == {NoId} \cup {WorkspaceID_ID(w) : w \in WorkspaceNames}

\* managedenvironments.NewManagedEnvironmentID
NewManagedEnvironmentID(sub, rg, name) ==
    [SubscriptionId |-> sub, ResourceGroupName |-> rg, ManagedEnvironmentName |-> name]

\* managedenvironments.ManagedEnvironmentId.ID
ManagedEnvironmentID_ID(id) ==
    <<"subscriptions", id.SubscriptionId, "resourceGroups", id.ResourceGroupName,
      "providers", "Microsoft.App", "managedEnvironments", id.ManagedEnvironmentName>>

\* managedenvironments.ParseManagedEnvironmentID
ParseManagedEnvironmentID(s) ==
    IF /\ Len(s) = 8
       /\ s[1] = "subscriptions" /\ s[3] = "resourceGroups" /\ s[5] = "providers"
       /\ s[6] = "Microsoft.App" /\ s[7] = "managedEnvironments"
       /\ s[2] # "" /\ s[4] # "" /\ s[8] # ""
    THEN [ok |-> TRUE, id |-> NewManagedEnvironmentID(s[2], s[4], s[8])]
    ELSE [ok |-> FALSE, id |-> Nil]

EnvironmentIdStrings ==
    {ManagedEnvironmentID_ID(NewManagedEnvironmentID(subscriptionId, g, n)) :
        g \in ResourceGroups, n \in EnvironmentNames}

\* ContainerAppEnvironmentModel: the fields Create, Read and Update branch on,
\* with the location and the tags; the remaining fields (subnet, zone
\* redundancy, workload profiles, computed addresses) are copied between the
\* configuration and the remote model without any condition on them
EnvironmentEmptyModel ==
    [name |-> "", resource_group_name |-> "", location |-> "",
     dapr_application_insights_connection_string |-> "",
     log_destination |-> "", log_analytics_workspace_id |-> NoId, tags |-> {}]

EnvironmentEmptyData ==
    [id |-> NoId, name |-> "", resource_group_name |-> "", location |-> "",
     dapr_application_insights_connection_string |-> "",
     log_destination |-> "", log_analytics_workspace_id |-> NoId, tags |-> {}]

EnvironmentConfigs ==
    [name : EnvironmentNames, resource_group_name : ResourceGroups, location : Locations,
     dapr_application_insights_connection_string : DaprConnectionStrings,
     log_destination : LogDestinations, log_analytics_workspace_id : WorkspaceIdStrings,
     tags : TagSets]

\* ResourceData holding the model `m` under the identifier `idString`
EnvironmentEncode(idString, m) ==
    [id |-> idString, name |-> m.name, resource_group_name |-> m.resource_group_name,
     location |-> m.location,
     dapr_application_insights_connection_string |->
         m.dapr_application_insights_connection_string,
     log_destination |-> m.log_destination,
     log_analytics_workspace_id |-> m.log_analytics_workspace_id, tags |-> m.tags]

\* Get of the managed environment service never returns the secrets it holds:
\* the Dapr connection string and the shared key of the workspace
EnvironmentRedact(env) ==
    [env EXCEPT
        !.Properties.DaprAIConnectionString = NilStr,
        !.Properties.AppLogsConfiguration =
            IF @ = Nil \/ @.LogAnalyticsConfiguration = Nil THEN @
            ELSE [@ EXCEPT !.LogAnalyticsConfiguration.SharedKey = NilStr]]

\* client.Get of the managed environment service
EnvironmentGet(remote, idString, fault) ==
    GetResponse([k \in DOMAIN remote |->
                    IF remote[k] = Nil THEN Nil ELSE EnvironmentRedact(remote[k])],
                idString, fault)

\* client.CreateOrUpdateThenPoll: a PUT of the environment; the service keeps
\* the logging configuration and the Dapr connection string it holds when the
\* request carries none (lines 364-366), and reports an emptied logging
\* configuration as none
EnvironmentCreateOrUpdateThenPoll(remote, idString, env, pollFault) ==
    IF pollFault = "poll" THEN [err |-> "error", remote |-> remote]
    ELSE LET old == remote[idString]
             logs == IF env.Properties.AppLogsConfiguration = Nil /\ old # Nil
                     THEN old.Properties.AppLogsConfiguration
                     ELSE IF env.Properties.AppLogsConfiguration # Nil
                             /\ env.Properties.AppLogsConfiguration.Destination = NilStr
                     THEN Nil
                     ELSE env.Properties.AppLogsConfiguration
             dapr == IF env.Properties.DaprAIConnectionString = NilStr /\ old # Nil
                     THEN old.Properties.DaprAIConnectionString
                     ELSE env.Properties.DaprAIConnectionString
         IN  [err |-> "none",
              remote |-> [remote EXCEPT ![idString] =
                            [env EXCEPT !.Properties.AppLogsConfiguration = logs,
                                        !.Properties.DaprAIConnectionString = dapr]]]

\* the Log Analytics workspaces: customer ID and primary shared key of each
CustomerIdOf(name) == IF name = "w1" THEN "customer-1" ELSE "customer-2"
SharedKeyOf(name) == IF name = "w1" THEN "key-1" ELSE "key-2"

\* what can go wrong reading a workspace and its keys (lines 424-443)
WorkspaceFaults == {"wsget", "wsnomodel", "wsnocustomer", "wskeys", "wsnokey"}
EnvironmentFaults == GetFaults \cup WorkspaceFaults \cup {"poll"}

\* constructAppLogsConfigurationFromModel (lines 409-456)
constructAppLogsConfigurationFromModel(model, wsFault) ==
    LET parsed == ParseWorkspaceID(model.log_analytics_workspace_id)
    IN  IF model.log_destination = LogDestinationNone
        THEN [err |-> "nil", calls |-> <<>>, config |-> Nil]
        ELSE IF model.log_destination = LogDestinationAzureMonitor
        THEN [err |-> "nil", calls |-> <<>>,
              config |-> [Destination |-> LogDestinationAzureMonitor,
                          LogAnalyticsConfiguration |-> Nil]]
        ELSE IF model.log_destination = LogDestinationLogAnalytics
        THEN IF ~parsed.ok
             THEN [err |-> "ParseWorkspaceID", calls |-> <<>>, config |-> Nil]
             ELSE IF wsFault = "wsget"
             THEN [err |-> "RetrievingWorkspace", calls |-> <<"Workspaces.Get">>,
                   config |-> Nil]
             ELSE IF wsFault = "wsnomodel"
             THEN [err |-> "ReadingCustomerId", calls |-> <<"Workspaces.Get">>,
                   config |-> Nil]
             ELSE IF wsFault = "wsnocustomer"
             THEN [err |-> "CustomerIdNil", calls |-> <<"Workspaces.Get">>,
                   config |-> Nil]
             ELSE IF wsFault = "wskeys"
             THEN [err |-> "RetrievingKeys",
                   calls |-> <<"Workspaces.Get", "SharedKeysGetSharedKeys">>,
                   config |-> Nil]
             ELSE IF wsFault = "wsnokey"
             THEN [err |-> "ReadingSharedKey",
                   calls |-> <<"Workspaces.Get", "SharedKeysGetSharedKeys">>,
                   config |-> Nil]
             ELSE [err |-> "nil",
                   calls |-> <<"Workspaces.Get", "SharedKeysGetSharedKeys">>,
                   config |-> [Destination |-> LogDestinationLogAnalytics,
                               LogAnalyticsConfiguration |->
                                   [CustomerId |-> CustomerIdOf(parsed.name),
                                    SharedKey |-> SharedKeyOf(parsed.name)]]]
        ELSE [err |-> "InvalidLogDestination", calls |-> <<>>, config |-> Nil]

\* Create, lines 188-197: the existence check on the response of Get
EnvironmentExistenceCheck(resp) ==
    IF resp.err /\ ~WasNotFound(resp.status) THEN "CheckingPresence"
    ELSE IF ~WasNotFound(resp.status) THEN "RequiresImport"
    ELSE "nil"

\* Create, lines 199-217: the environment sent by the create call
EnvironmentCreateParameters(model, appLogsConfiguration) ==
    [Location |-> model.location,
     Name |-> model.name,
     Properties |->
        [DaprAIConnectionString |->
            IF model.dapr_application_insights_connection_string # ""
            THEN model.dapr_application_insights_connection_string ELSE NilStr,
         AppLogsConfiguration |-> appLogsConfiguration],
     Tags |-> model.tags]

\* ContainerAppEnvironmentResource.Create, on the ResourceData `data` of the plan
EnvironmentCreate(data, remote, fault) ==
    LET id == NewManagedEnvironmentID(subscriptionId, data.resource_group_name, data.name)
        idString == ManagedEnvironmentID_ID(id)
        existing == EnvironmentGet(remote, idString, fault)
        check == EnvironmentExistenceCheck(existing)
        logs == constructAppLogsConfigurationFromModel(data, fault)
        managedEnvironment == EnvironmentCreateParameters(data, logs.config)
        polled == EnvironmentCreateOrUpdateThenPoll(remote, idString, managedEnvironment,
                                                    fault)
    IN  IF check # "nil"
        THEN Result(check, <<"ManagedEnvironments.Get">>, existing.status, FALSE,
                    NoRequest, "none", "create", data, remote)
        ELSE IF logs.err # "nil"
        THEN Result(logs.err, <<"ManagedEnvironments.Get">> \o logs.calls,
                    existing.status, FALSE, NoRequest, "none", "create", data, remote)
        ELSE IF polled.err # "none"
        THEN Result("Creating",
                    <<"ManagedEnvironments.Get">> \o logs.calls
                        \o <<"CreateOrUpdateThenPoll">>,
                    existing.status, FALSE, managedEnvironment, polled.err, "create",
                    data, remote)
        ELSE Result("nil",
                    <<"ManagedEnvironments.Get">> \o logs.calls
                        \o <<"CreateOrUpdateThenPoll", "SetID">>,
                    existing.status, FALSE, managedEnvironment, "none", "create",
                    SetID(data, idString), polled.remote)

\* a Read that reports every failed Get as an error
EnvironmentReadGetErrorAlways(resp) == "Reading"

\* Read, lines 247-252: what Read does with a failed Get
EnvironmentReadGetError(resp) ==
    IF WasNotFound(resp.status) THEN "gone" ELSE "Reading"

\* Read, lines 275-287: log_destination and log_analytics_workspace_id of the
\* state, from the properties of the response and the workspace ID of the
\* prior state
EnvironmentReadLogs(state, props, priorWorkspaceId) ==
    IF props.AppLogsConfiguration # Nil
       /\ props.AppLogsConfiguration.Destination # NilStr
    THEN [state EXCEPT
            !.log_destination = props.AppLogsConfiguration.Destination,
            !.log_analytics_workspace_id =
                IF props.AppLogsConfiguration.Destination = LogDestinationLogAnalytics
                   /\ priorWorkspaceId # NoId
                THEN priorWorkspaceId ELSE @]
    ELSE [state EXCEPT !.log_destination = LogDestinationNone]

\* a Read that does not carry the Dapr connection string over
EnvironmentReadDaprDropped(state, priorDapr) == state

\* Read, lines 291-294: the Dapr connection string of the state
EnvironmentReadDapr(state, priorDapr) ==
    IF priorDapr # ""
    THEN [state EXCEPT !.dapr_application_insights_connection_string = priorDapr]
    ELSE state

\* Read, lines 254-298: the state encoded after a successful Get
EnvironmentReadState(data, id, model) ==
    LET fromModel ==
            IF model = Nil THEN EnvironmentEmptyModel
            ELSE LET base == [EnvironmentEmptyModel EXCEPT
                                !.name = id.ManagedEnvironmentName,
                                !.resource_group_name = id.ResourceGroupName,
                                !.location = model.Location,
                                !.tags = model.Tags]
                 IN  IF model.Properties = Nil THEN base
                     ELSE EnvironmentReadLogs(base, model.Properties,
                                              data.log_analytics_workspace_id)
    IN  EnvironmentEncode(data.id,
            EnvironmentReadDapr(fromModel,
                                data.dapr_application_insights_connection_string))

\* ContainerAppEnvironmentResource.Read
EnvironmentRead(data, remote, getFault) ==
    LET parsed == ParseManagedEnvironmentID(data.id)
        existing == EnvironmentGet(remote, data.id, getFault)
    IN  IF ~parsed.ok
        THEN Result("ParseManagedEnvironmentID", <<>>, "none", FALSE, NoRequest, "none",
                    "read", data, remote)
        ELSE IF existing.err
        THEN IF EnvironmentReadGetError(existing) = "gone"
             THEN Result(MarkAsGone(data).err, <<"ManagedEnvironments.Get">>,
                         existing.status, TRUE, NoRequest, "none", "read",
                         MarkAsGone(data).data, remote)
             ELSE Result("Reading", <<"ManagedEnvironments.Get">>, existing.status,
                         FALSE, NoRequest, "none", "read", data, remote)
        ELSE Result("nil", <<"ManagedEnvironments.Get">>, existing.status, FALSE,
                    NoRequest, "none", "read",
                    EnvironmentReadState(data, parsed.id, existing.model), remote)

\* Delete, lines 315-319: the error Delete returns for a failed DeleteThenPoll
EnvironmentDeleteError(pollErr) == IF pollErr # "none" THEN "Deleting" ELSE "nil"

\* ContainerAppEnvironmentResource.Delete
EnvironmentDelete(data, remote, outcome) ==
    LET parsed == ParseManagedEnvironmentID(data.id)
        polled == DeleteThenPoll(remote, data.id, outcome)
    IN  IF ~parsed.ok
        THEN Result("ParseManagedEnvironmentID", <<>>, "none", FALSE, NoRequest, "none",
                    "delete", data, remote)
        ELSE Result(EnvironmentDeleteError(polled.err), <<"DeleteThenPoll">>, "none",
                    FALSE, NoRequest, polled.err, "delete", data, polled.remote)

\* Update, lines 349-355: the log destination Update works with
EnvironmentEffectiveLogDestination(state) ==
    IF state.log_destination = LogDestinationMissing
    THEN IF state.log_analytics_workspace_id # NoId
         THEN LogDestinationLogAnalytics ELSE LogDestinationNone
    ELSE state.log_destination

\* Update, lines 357-360: the log destination the remote reports
EnvironmentRemoteLogDestination(props) ==
    IF props.AppLogsConfiguration # Nil /\ props.AppLogsConfiguration.Destination # NilStr
    THEN props.AppLogsConfiguration.Destination
    ELSE LogDestinationNone

\* an Update that rebuilds the logging configuration whatever the remote reports
EnvironmentUpdateLogsRebuilding(state, appLogDestination, wsFault) ==
    IF state.log_destination = LogDestinationNone
    THEN [err |-> "nil", calls |-> <<>>,
          config |-> [Destination |-> NilStr, LogAnalyticsConfiguration |-> Nil]]
    ELSE constructAppLogsConfigurationFromModel(state, wsFault)

\* Update, lines 362-378: the AppLogsConfiguration of the update request
EnvironmentUpdateLogs(state, appLogDestination, wsFault) ==
    IF state.log_destination = appLogDestination
    THEN [err |-> "nil", calls |-> <<>>, config |-> Nil]
    ELSE IF state.log_destination = LogDestinationNone
    THEN [err |-> "nil", calls |-> <<>>,
          config |-> [Destination |-> NilStr, LogAnalyticsConfiguration |-> Nil]]
    ELSE constructAppLogsConfigurationFromModel(state, wsFault)

\* ContainerAppEnvironmentResource.Update: `old` is the prior state, `planned`
\* the ResourceData of the plan; a nil Model or nil Properties in the response
\* of Get is dereferenced (lines 346, 358) and aborts the call
EnvironmentUpdate(old, planned, remote, fault) ==
    LET parsed == ParseManagedEnvironmentID(planned.id)
        existing == EnvironmentGet(remote, planned.id, fault)
        tagged == IF planned.tags # old.tags
                  THEN [existing.model EXCEPT !.Tags = planned.tags]
                  ELSE existing.model
        state == [planned EXCEPT
                    !.log_destination = EnvironmentEffectiveLogDestination(planned)]
        appLogDestination == EnvironmentRemoteLogDestination(existing.model.Properties)
        logs == EnvironmentUpdateLogs(state, appLogDestination, fault)
        request == [tagged EXCEPT !.Properties.AppLogsConfiguration = logs.config]
        polled == EnvironmentCreateOrUpdateThenPoll(remote, planned.id, request, fault)
    IN  IF ~parsed.ok
        THEN Result("ParseManagedEnvironmentID", <<>>, "none", FALSE, NoRequest, "none",
                    "update", old, remote)
        ELSE IF existing.err
        THEN Result("Reading", <<"ManagedEnvironments.Get">>, existing.status, FALSE,
                    NoRequest, "none", "update", old, remote)
        ELSE IF existing.model = Nil \/ existing.model.Properties = Nil
        THEN Result("panic", <<"ManagedEnvironments.Get">>, existing.status, FALSE,
                    NoRequest, "none", "update", old, remote)
        ELSE IF logs.err # "nil"
        THEN Result(logs.err, <<"ManagedEnvironments.Get">> \o logs.calls,
                    existing.status, FALSE, NoRequest, "none", "update", old, remote)
        ELSE IF polled.err # "none"
        THEN Result("Updating",
                    <<"ManagedEnvironments.Get">> \o logs.calls
                        \o <<"CreateOrUpdateThenPoll">>,
                    existing.status, FALSE, request, polled.err, "update", old, remote)
        ELSE Result("nil",
                    <<"ManagedEnvironments.Get">> \o logs.calls
                        \o <<"CreateOrUpdateThenPoll">>,
                    existing.status, FALSE, request, "none", "update", planned,
                    polled.remote)

\* a CustomizeDiff that refuses every plan naming a workspace
EnvironmentCustomizeDiffStrict(model) ==
    IF model.log_analytics_workspace_id # NoId
       /\ model.log_destination # LogDestinationLogAnalytics
    THEN "WorkspaceWithoutLogAnalytics"
    ELSE "nil"

\* ContainerAppEnvironmentResource.CustomizeDiff (lines 389-407): the error
\* for a proposed configuration; GetOk reports log_destination as existing
\* when it is set to a non-empty value
EnvironmentCustomizeDiff(model) ==
    LET exists == model.log_destination # ""
    IN  IF exists /\ model.log_analytics_workspace_id # NoId
           /\ model.log_destination # LogDestinationLogAnalytics
        THEN "WorkspaceWithoutLogAnalytics"
        ELSE "nil"

\* ContainerAppEnvironmentResource.CustomizeDiff, the whole Func: DecodeDiff,
\* then the check of the proposed configuration; it calls no client
EnvironmentCustomizeDiffFunc(model, decodes, data, remote) ==
    Result(IF ~decodes THEN "DecodeDiff" ELSE EnvironmentCustomizeDiff(model),
           <<>>, "none", FALSE, NoRequest, "none", "customizediff", data, remote)

----------------------------------------------------------------------------
(* The host runtime: lifecycle calls on the resource instances *)

ResourceTypes == {"cache_rule", "environment"}

\* the environment instance of a configuration
EnvironmentInst == {"test"}

NoPlan == [none |-> TRUE]

\* no pure function is under test
NoProbe == [none |-> TRUE]

\* the record of a lifecycle call: the call, what the plan handed to it, what
\* held before it, and the result of the handler
Called(type, op, i, plan, seen, r) ==
    [rtype |-> type, op |-> op, inst |-> i, plan |-> plan, seen |-> seen,
     err |-> r.err, calls |-> r.calls, status |-> r.status,
     gone |-> r.gone, request |-> r.request, remoteErr |-> r.remoteErr,
     budget |-> r.budget]

NoCall ==
    [rtype |-> "none", op |-> "none", inst |-> "none", plan |-> NoPlan,
     seen |-> NoPlan, err |-> "nil", calls |-> <<>>,
     status |-> "none", gone |-> FALSE, request |-> NoRequest, remoteErr |-> "none",
     budget |-> "none"]

\* the host runtime keeps the ResourceData a call leaves when the call returns
\* no error, and drops a resource whose identifier is empty from the state; a
\* new resource whose call set the identifier and then returned an error is
\* kept as well
Persisted(before, r, empty) ==
    IF r.err # "nil"
    THEN IF before.id = NoId /\ r.data.id # NoId THEN r.data ELSE before
    ELSE IF r.data.id = NoId THEN empty
    ELSE r.data

Init ==
    /\ rtype \in ResourceTypes
    /\ crRemote = [k \in CacheRuleIdStrings |-> Nil]
    /\ crData = [i \in Inst |-> CacheRuleEmptyData]
    /\ caeRemote = [k \in EnvironmentIdStrings |-> Nil]
    /\ caeData = [i \in EnvironmentInst |-> EnvironmentEmptyData]
    /\ last = NoCall
    /\ probe = NoProbe

ContainerRegistryCacheRule_Create(i) ==
    /\ rtype = "cache_rule"
    /\ crData[i].id = NoId
    /\ \E cfg \in CacheRuleConfigs, fault \in CacheRuleFaults :
        LET plan == CacheRulePlanned(cfg)
            r == CacheRuleCreate(plan, crRemote, fault)
        IN  /\ crData' = [crData EXCEPT ![i] = Persisted(@, r, CacheRuleEmptyData)]
            /\ crRemote' = r.remote
            /\ last' = Called("cache_rule", "Create", i, plan, NoPlan, r)
    /\ UNCHANGED <<probe, rtype, caeRemote, caeData>>

ContainerRegistryCacheRule_Read(i) ==
    /\ rtype = "cache_rule"
    /\ crData[i].id # NoId
    /\ \E fault \in GetFaults :
        LET r == CacheRuleRead(crData[i], crRemote, fault)
        IN  /\ crData' = [crData EXCEPT ![i] = Persisted(@, r, CacheRuleEmptyData)]
            /\ crRemote' = r.remote
            /\ last' = Called("cache_rule", "Read", i, NoPlan,
                              [id |-> crData[i].id,
                               container_registry_id |-> crData[i].container_registry_id],
                              r)
    /\ UNCHANGED <<probe, rtype, caeRemote, caeData>>

ContainerRegistryCacheRule_Update(i) ==
    /\ rtype = "cache_rule"
    /\ crData[i].id # NoId
    /\ \E cred \in CredentialSetIds, fault \in {"none", "poll"} :
        LET plan == [crData[i] EXCEPT !.credential_set_id = cred]
            r == CacheRuleUpdate(plan, crRemote, fault)
        IN  /\ crData' = [crData EXCEPT ![i] = Persisted(@, r, CacheRuleEmptyData)]
            /\ crRemote' = r.remote
            /\ last' = Called("cache_rule", "Update", i,
                              [credential_set_id |-> cred],
                              [credential_set_id |-> crData[i].credential_set_id], r)
    /\ UNCHANGED <<probe, rtype, caeRemote, caeData>>

ContainerRegistryCacheRule_Delete(i) ==
    /\ rtype = "cache_rule"
    /\ crData[i].id # NoId
    /\ \E outcome \in DeleteOutcomes :
        LET r == CacheRuleDelete(crData[i], crRemote, outcome)
        IN  /\ crData' = [crData EXCEPT ![i] =
                            IF r.err = "nil" THEN CacheRuleEmptyData ELSE @]
            /\ crRemote' = r.remote
            /\ last' = Called("cache_rule", "Delete", i, NoPlan, NoPlan, r)
    /\ UNCHANGED <<probe, rtype, caeRemote, caeData>>

\* import by ID: the state of the instance holds the identifier alone
ContainerRegistryCacheRule_Import(i) ==
    /\ rtype = "cache_rule"
    /\ crData[i].id = NoId
    /\ \E idString \in CacheRuleIdStrings :
        /\ crData' = [crData EXCEPT ![i] = SetID(CacheRuleEmptyData, idString)]
        /\ last' = [NoCall EXCEPT !.rtype = "cache_rule", !.op = "Import", !.inst = i]
    /\ UNCHANGED <<probe, rtype, crRemote, caeRemote, caeData>>

\* the host runtime applies a plan only when CustomizeDiff accepted it
ContainerAppEnvironmentResource_Create(i) ==
    /\ rtype = "environment"
    /\ caeData[i].id = NoId
    /\ \E cfg \in EnvironmentConfigs, fault \in EnvironmentFaults :
        LET plan == EnvironmentEncode(NoId, cfg)
            r == EnvironmentCreate(plan, caeRemote, fault)
        IN  /\ EnvironmentCustomizeDiff(cfg) = "nil"
            /\ caeData' = [caeData EXCEPT ![i] = Persisted(@, r, EnvironmentEmptyData)]
            /\ caeRemote' = r.remote
            /\ last' = Called("environment", "Create", i,
                              [log_destination |-> cfg.log_destination,
                               log_analytics_workspace_id |->
                                   cfg.log_analytics_workspace_id],
                              NoPlan, r)
    /\ UNCHANGED <<probe, rtype, crRemote, crData>>

ContainerAppEnvironmentResource_Read(i) ==
    /\ rtype = "environment"
    /\ caeData[i].id # NoId
    /\ \E fault \in GetFaults :
        LET r == EnvironmentRead(caeData[i], caeRemote, fault)
        IN  /\ caeData' = [caeData EXCEPT ![i] = Persisted(@, r, EnvironmentEmptyData)]
            /\ caeRemote' = r.remote
            /\ last' = Called("environment", "Read", i, NoPlan,
                              [dapr_application_insights_connection_string |->
                                   caeData[i].dapr_application_insights_connection_string,
                               log_analytics_workspace_id |->
                                   caeData[i].log_analytics_workspace_id,
                               model |-> EnvironmentGet(caeRemote, caeData[i].id,
                                                        fault).model],
                              r)
    /\ UNCHANGED <<probe, rtype, crRemote, crData>>

\* the arguments that are not force-new can change in place
ContainerAppEnvironmentResource_Update(i) ==
    /\ rtype = "environment"
    /\ caeData[i].id # NoId
    /\ \E dest \in LogDestinations, ws \in WorkspaceIdStrings, tags \in TagSets,
          fault \in EnvironmentFaults :
        LET plan == [caeData[i] EXCEPT !.log_destination = dest,
                                       !.log_analytics_workspace_id = ws,
                                       !.tags = tags]
            r == EnvironmentUpdate(caeData[i], plan, caeRemote, fault)
        IN  /\ EnvironmentCustomizeDiff(plan) = "nil"
            /\ caeData' = [caeData EXCEPT ![i] = Persisted(@, r, EnvironmentEmptyData)]
            /\ caeRemote' = r.remote
            /\ last' = Called("environment", "Update", i,
                              [log_destination |-> dest,
                               log_analytics_workspace_id |-> ws],
                              [log_analytics_workspace_id |->
                                   caeData[i].log_analytics_workspace_id,
                               AppLogsConfiguration |->
                                   IF caeRemote[caeData[i].id] = Nil THEN Nil
                                   ELSE EnvironmentRedact(caeRemote[caeData[i].id])
                                            .Properties.AppLogsConfiguration],
                              r)
    /\ UNCHANGED <<probe, rtype, crRemote, crData>>

ContainerAppEnvironmentResource_Delete(i) ==
    /\ rtype = "environment"
    /\ caeData[i].id # NoId
    /\ \E outcome \in DeleteOutcomes :
        LET r == EnvironmentDelete(caeData[i], caeRemote, outcome)
        IN  /\ caeData' = [caeData EXCEPT ![i] =
                            IF r.err = "nil" THEN EnvironmentEmptyData ELSE @]
            /\ caeRemote' = r.remote
            /\ last' = Called("environment", "Delete", i, NoPlan, NoPlan, r)
    /\ UNCHANGED <<probe, rtype, crRemote, crData>>

\* the host runtime hands a proposed configuration to CustomizeDiff while it
\* plans, for a resource to create and for a resource to change
ContainerAppEnvironmentResource_CustomizeDiff(i) ==
    /\ rtype = "environment"
    /\ \E dest \in LogDestinations, ws \in WorkspaceIdStrings, decodes \in BOOLEAN :
        LET model == [caeData[i] EXCEPT !.log_destination = dest,
                                        !.log_analytics_workspace_id = ws]
            r == EnvironmentCustomizeDiffFunc(model, decodes, caeData[i], caeRemote)
        IN  /\ caeData' = [caeData EXCEPT ![i] = r.data]
            /\ caeRemote' = r.remote
            /\ last' = Called("environment", "CustomizeDiff", i,
                              [log_destination |-> dest,
                               log_analytics_workspace_id |-> ws,
                               decodes |-> decodes],
                              NoPlan, r)
    /\ UNCHANGED <<probe, rtype, crRemote, crData>>

\* import by ID: the state of the instance holds the identifier alone
ContainerAppEnvironmentResource_Import(i) ==
    /\ rtype = "environment"
    /\ caeData[i].id = NoId
    /\ \E idString \in EnvironmentIdStrings :
        /\ caeData' = [caeData EXCEPT ![i] = SetID(EnvironmentEmptyData, idString)]
        /\ last' = [NoCall EXCEPT !.rtype = "environment", !.op = "Import", !.inst = i]
    /\ UNCHANGED <<probe, rtype, crRemote, crData, caeRemote>>

\* the environments another party can leave in the service
ForeignEnvironments ==
    {[Location |-> "westeurope", Name |-> n,
      Properties |-> [DaprAIConnectionString |-> NilStr, AppLogsConfiguration |-> logs],
      Tags |-> {}] :
        n \in EnvironmentNames,
        logs \in {Nil,
                  [Destination |-> LogDestinationAzureMonitor,
                   LogAnalyticsConfiguration |-> Nil],
                  [Destination |-> LogDestinationLogAnalytics,
                   LogAnalyticsConfiguration |->
                       [CustomerId |-> CustomerIdOf("w1"), SharedKey |-> SharedKeyOf("w1")]]}}

\* the remote service is shared: another party creates or reconfigures an
\* environment outside of this configuration
RemoteChange ==
    /\ rtype = "environment"
    /\ \E idString \in EnvironmentIdStrings, env \in ForeignEnvironments :
        /\ env.Name = ParseManagedEnvironmentID(idString).id.ManagedEnvironmentName
        /\ caeRemote' = [caeRemote EXCEPT ![idString] = env]
    /\ last' = [NoCall EXCEPT !.rtype = "environment", !.op = "RemoteChange"]
    /\ UNCHANGED <<probe, rtype, crRemote, crData, caeData>>

Next ==
    \/ \E i \in Inst :
        \/ ContainerRegistryCacheRule_Create(i)
        \/ ContainerRegistryCacheRule_Read(i)
        \/ ContainerRegistryCacheRule_Update(i)
        \/ ContainerRegistryCacheRule_Delete(i)
        \/ ContainerRegistryCacheRule_Import(i)
    \/ \E i \in EnvironmentInst :
        \/ ContainerAppEnvironmentResource_Create(i)
        \/ ContainerAppEnvironmentResource_Read(i)
        \/ ContainerAppEnvironmentResource_Update(i)
        \/ ContainerAppEnvironmentResource_Delete(i)
        \/ ContainerAppEnvironmentResource_CustomizeDiff(i)
        \/ ContainerAppEnvironmentResource_Import(i)
    \/ RemoteChange

Spec == Init /\ [][Next]_vars

----------------------------------------------------------------------------
(* Properties of the lifecycle calls *)

IsCall(type, op) == last.rtype = type /\ last.op = op

CreateCalls == {"CreateThenPoll", "CreateOrUpdateThenPoll"}

Issued(call) == \E k \in 1..Len(last.calls) : last.calls[k] = call

\* the existence check of the last Create received a response that is not a
\* not-found response (status "none": Create returned before the check)
ExistenceCheckNotNotFound ==
    /\ last.op = "Create"
    /\ last.status # "none"
    /\ last.status # StatusNotFound

\* C1 as stated: whenever the existence check of Create does not report
\* not-found, Create returns the import-required error and never issues the
\* create-and-poll call.
C1_AsStated ==
    ExistenceCheckNotNotFound =>
        /\ last.err = "RequiresImport"
        /\ \A c \in CreateCalls : ~Issued(c)

\* C1 amended: whenever the existence check of Create does not report
\* not-found, Create returns an error and never issues the create-and-poll call:
\* the import-required error when the Get succeeded, the error of the check
\* when the Get failed; and a Create that returns an error leaves the remote
\* objects unchanged.
C1_ExistingIsNeverCreated ==
    /\ [](ExistenceCheckNotNotFound =>
            /\ \A c \in CreateCalls : ~Issued(c)
            /\ last.request = NoRequest
            /\ last.status = StatusOK => last.err = "RequiresImport"
            /\ last.status # StatusOK => last.err = "CheckingPresence")
    /\ [][(last'.op = "Create" /\ last'.err # "nil")
            => (crRemote' = crRemote /\ caeRemote' = caeRemote)]_vars

\* a second Create of the same cache rule, after the first succeeded, failed
\* with import-required
C1_Witness ==
    /\ IsCall("cache_rule", "Create")
    /\ last.inst = "import"
    /\ last.err = "RequiresImport"
    /\ crData["test"].id # NoId
    /\ crRemote[crData["test"].id] # Nil
    /\ last.plan.name = crData["test"].name

\* the identifier of the instance the last call was made on
LastId ==
    IF last.rtype = "cache_rule" THEN crData[last.inst].id ELSE caeData[last.inst].id

\* C2: when the Get of Read fails with a not-found response, Read marks the
\* resource as gone (it leaves the state) and returns no error; when the Get
\* fails with any other response, Read returns an error and does not mark the
\* resource as gone.
C2_ReadNotFoundIsGone ==
    (last.op = "Read" /\ last.status \notin {"none", StatusOK}) =>
        IF last.status = StatusNotFound
        THEN last.gone /\ last.err = "nil" /\ LastId = NoId
        ELSE ~last.gone /\ last.err # "nil" /\ LastId # NoId

\* a Read found the environment gone
C2_Witness ==
    /\ IsCall("environment", "Read")
    /\ last.status = StatusNotFound
    /\ last.gone

\* C3 as stated: Delete returns success when the delete-and-poll call fails
\* because the remote resource is not found, and an error for every other
\* failure of that call.
C3_DeleteNotFoundIsSuccess ==
    last.op = "Delete" =>
        /\ last.remoteErr = "notfound" => last.err = "nil"
        /\ last.remoteErr = "error" => last.err # "nil"

\* the last call was a Read of an environment that returned no error and found
\* the environment
EnvironmentReadSucceeded ==
    IsCall("environment", "Read") /\ last.err = "nil" /\ ~last.gone

ResponseReportsLogAnalytics ==
    /\ last.seen.model # Nil
    /\ last.seen.model.Properties # Nil
    /\ last.seen.model.Properties.AppLogsConfiguration # Nil
    /\ last.seen.model.Properties.AppLogsConfiguration.Destination =
           LogDestinationLogAnalytics

DesiredLogDestination(plan) ==
    IF plan.log_destination # "" THEN plan.log_destination
    ELSE IF plan.log_analytics_workspace_id # NoId THEN "log-analytics"
    ELSE "none"

\* the log destination the remote reports with a logging configuration
ReportedLogDestination(logs) ==
    IF logs = Nil \/ logs.Destination = NilStr THEN "none" ELSE logs.Destination

\* the last call was an Update of an environment that sent its request, and
\* the desired destination was the one the remote reported
UpdateWithoutDestinationChange ==
    /\ IsCall("environment", "Update")
    /\ Issued("CreateOrUpdateThenPoll")
    /\ DesiredLogDestination(last.plan) =
           ReportedLogDestination(last.seen.AppLogsConfiguration)

\* C5: whenever the effective desired log destination of an Update equals the
\* destination the remote reports, the update request carries no
\* AppLogsConfiguration at all, and the logging configuration the remote
\* holds, with its shared key, is the one it held before.
C5_UpdateKeepsLogging ==
    UpdateWithoutDestinationChange =>
        /\ last.request.Properties.AppLogsConfiguration = Nil
        /\ last.err = "nil" =>
              LET held == caeRemote[caeData[last.inst].id].Properties.AppLogsConfiguration
              IN  /\ EnvironmentRedact(caeRemote[caeData[last.inst].id])
                        .Properties.AppLogsConfiguration = last.seen.AppLogsConfiguration
                  /\ (held # Nil /\ held.LogAnalyticsConfiguration # Nil) =>
                        held.LogAnalyticsConfiguration.SharedKey # NilStr

\* an Update that omits log_destination left a workspace-linked configuration
C5_Witness ==
    /\ UpdateWithoutDestinationChange
    /\ last.err = "nil"
    /\ last.plan.log_destination = ""
    /\ last.seen.AppLogsConfiguration # Nil
    /\ last.seen.AppLogsConfiguration.Destination = "log-analytics"
    /\ caeRemote[caeData[last.inst].id].Properties.AppLogsConfiguration
            .LogAnalyticsConfiguration.SharedKey = SharedKeyOf("w1")

\* the last call was a Create of a cache rule that returned no error
CacheRuleCreateSucceeded == IsCall("cache_rule", "Create") /\ last.err = "nil"

\* C6: a successful Create of a cache rule persists the identifier built from
\* the subscription, the resource group and name of the registry and the
\* configured name, and a Read that follows it sets source_repo and
\* target_repo to the configured values.
C6_CreateThenRead ==
    CacheRuleCreateSucceeded =>
        /\ crData[last.inst].id =
               <<"subscriptions", subscriptionId,
                 "resourceGroups", last.plan.container_registry_id[4],
                 "providers", "Microsoft.ContainerRegistry",
                 "registries", last.plan.container_registry_id[8],
                 "cacheRules", last.plan.name>>
        /\ LET read == CacheRuleRead(crData[last.inst], crRemote, "none")
           IN  /\ read.err = "nil" /\ ~read.gone
               /\ read.data.id = crData[last.inst].id
               /\ read.data.source_repo = last.plan.source_repo
               /\ read.data.target_repo = last.plan.target_repo

\* the cache rule of the acceptance test was created
C6_Witness ==
    /\ CacheRuleCreateSucceeded
    /\ last.plan.source_repo = "docker.io/hello-world"
    /\ last.plan.target_repo = "target"
    /\ crRemote[crData[last.inst].id].Properties.SourceRepository =
           "docker.io/hello-world"

\* C7 as stated: Read of a cache rule writes into container_registry_id the
\* ID of the registry with the subscription, the resource group and the
\* registry name of the cache rule ID.
C7_ReadWritesParentRegistry ==
    (IsCall("cache_rule", "Read") /\ last.err = "nil" /\ ~last.gone) =>
        crData[last.inst].container_registry_id =
            <<"subscriptions", last.seen.id[2], "resourceGroups", last.seen.id[4],
              "providers", "Microsoft.ContainerRegistry", "registries", last.seen.id[8]>>

\* C11: CustomizeDiff of an environment issues no remote call and leaves the
\* state and the remote alone; for a proposed configuration that decodes it
\* returns an error exactly when log_analytics_workspace_id is non-empty and
\* log_destination is set to a value other than log-analytics.
C11_CustomizeDiffIsLocal ==
    /\ [](IsCall("environment", "CustomizeDiff") =>
            /\ last.calls = <<>>
            /\ last.request = NoRequest
            /\ last.plan.decodes =>
                  (last.err # "nil" <=>
                      /\ last.plan.log_analytics_workspace_id # NoId
                      /\ last.plan.log_destination # ""
                      /\ last.plan.log_destination # "log-analytics"))
    /\ [][last'.op = "CustomizeDiff" =>
            (caeRemote' = caeRemote /\ caeData' = caeData)]_vars

\* CustomizeDiff refused a workspace with the azure-monitor destination, on
\* an environment that exists
C11_Witness ==
    /\ IsCall("environment", "CustomizeDiff")
    /\ last.err = "WorkspaceWithoutLogAnalytics"
    /\ last.plan.log_destination = "azure-monitor"
    /\ last.plan.log_analytics_workspace_id = WorkspaceID_ID("w1")
    /\ caeData[last.inst].id # NoId

\* the last call was an Update of an environment that sent its request, for a
\* plan that keeps the log-analytics destination the remote reports and names
\* another workspace than the state did
UpdateWithWorkspaceChange ==
    /\ IsCall("environment", "Update")
    /\ Issued("CreateOrUpdateThenPoll")
    /\ DesiredLogDestination(last.plan) = "log-analytics"
    /\ ReportedLogDestination(last.seen.AppLogsConfiguration) = "log-analytics"
    /\ last.seen.log_analytics_workspace_id # NoId
    /\ last.plan.log_analytics_workspace_id # NoId
    /\ last.plan.log_analytics_workspace_id # last.seen.log_analytics_workspace_id

\* C13 as stated: an Update that keeps the log-analytics destination and names
\* a different workspace sends an AppLogsConfiguration built from the customer
\* ID and the shared key of the new workspace.
C13_UpdateAppliesWorkspace ==
    UpdateWithWorkspaceChange =>
        LET name == ParseWorkspaceID(last.plan.log_analytics_workspace_id).name
        IN  last.request.Properties.AppLogsConfiguration =
                [Destination |-> LogDestinationLogAnalytics,
                 LogAnalyticsConfiguration |->
                     [CustomerId |-> CustomerIdOf(name), SharedKey |-> SharedKeyOf(name)]]

\* C14 as stated: an Update of a cache rule that changes credential_set_id
\* sends the new credential set identifier with the update call, and a Read
\* after the Update succeeded yields that credential_set_id.
C14_UpdateAppliesCredentialSet ==
    (/\ IsCall("cache_rule", "Update")
     /\ Issued("UpdateThenPoll")
     /\ last.plan.credential_set_id # ""
     /\ last.plan.credential_set_id # last.seen.credential_set_id) =>
        /\ last.request.Properties.CredentialSetResourceId = last.plan.credential_set_id
        /\ last.err = "nil" =>
              CacheRuleRead(crData[last.inst], crRemote, "none").data.credential_set_id
                  = last.plan.credential_set_id

\* the timeout budget that belongs to a lifecycle operation
OwnBudget(op) ==
    CASE op = "Create" -> "create"
      [] op = "Read" -> "read"
      [] op = "Update" -> "update"
      [] op = "Delete" -> "delete"

\* C15 as stated: each lifecycle operation of the cache rule runs its remote
\* calls under its own timeout budget, and no mutating operation runs under
\* the read budget.
C15_OwnTimeoutBudget ==
    (last.rtype = "cache_rule" /\ last.op \in {"Create", "Read", "Update", "Delete"}
     /\ last.calls # <<>>) =>
        /\ last.budget = OwnBudget(last.op)
        /\ last.op # "Read" => last.budget # "read"

\* the position of the first create-and-poll call of the last call, 0 if none
CreateCallAt ==
    IF \E k \in 1..Len(last.calls) : last.calls[k] \in CreateCalls
    THEN CHOOSE k \in 1..Len(last.calls) :
            /\ last.calls[k] \in CreateCalls
            /\ \A j \in 1..(k - 1) : last.calls[j] \notin CreateCalls
    ELSE 0

\* C16: Create persists the identifier if and only if the create-and-poll
\* call was issued and succeeded, SetID comes after that call, and on every
\* error path of Create the identifier stays unset.
C16_SetIDAfterCreate ==
    last.op = "Create" =>
        /\ LastId # NoId <=> (CreateCallAt > 0 /\ last.remoteErr = "none")
        /\ LastId # NoId <=> Issued("SetID")
        /\ \A k \in 1..Len(last.calls) :
              last.calls[k] = "SetID" => (CreateCallAt > 0 /\ CreateCallAt < k)
        /\ last.err # "nil" => LastId = NoId
        /\ last.err = "nil" => LastId # NoId

\* a Create of an environment failed in its create-and-poll call after it had
\* built the logging configuration, and left no identifier
C16_Witness ==
    /\ IsCall("environment", "Create")
    /\ last.err = "Creating"
    /\ Issued("SharedKeysGetSharedKeys")
    /\ Issued("CreateOrUpdateThenPoll")
    /\ caeData[last.inst].id = NoId

\* C18 as stated: Create derives the effective log destination of a
\* configuration that omits log_destination as Update does (log-analytics
\* when a workspace is named, none otherwise); a Create of such a
\* configuration that passed the existence check does not fail with the
\* invalid-log-destination error, and the request it sends carries the
\* derived destination.
C18_CreateDerivesDestination ==
    (/\ IsCall("environment", "Create")
     /\ last.plan.log_destination = LogDestinationMissing
     /\ last.status = StatusNotFound) =>
        /\ last.err # "InvalidLogDestination"
        /\ Issued("CreateOrUpdateThenPoll") =>
              ReportedLogDestination(last.request.Properties.AppLogsConfiguration)
                  = EnvironmentEffectiveLogDestination(last.plan)

----------------------------------------------------------------------------
(* Concurrent Creates of cache rules: the host runs the Create calls of
   distinct instances in parallel, one call per instance at a time; the calls
   interleave at their remote calls *)

\* the configurations of the instances that are created in parallel
RaceConfigs == {cfg \in CacheRuleConfigs : cfg.credential_set_id = ""}

\* the identifier a Create builds from the ResourceData of its plan
RaceId(data) ==
    LET registryId == ParseRegistryID(data.container_registry_id).id
    IN  CacheRuleID_ID(NewCacheRuleID(subscriptionId, registryId.ResourceGroupName,
                                      registryId.RegistryName, data.name))

\* a Create that has not been called: its position, the ResourceData of its
\* plan, the error it returned
RaceIdle == [pc |-> "idle", data |-> CacheRuleEmptyData, err |-> "none"]

RaceInit ==
    /\ rtype = "cache_rule"
    /\ crRemote = [k \in CacheRuleIdStrings |-> Nil]
    /\ crData = [i \in Inst |-> CacheRuleEmptyData]
    /\ caeRemote = [k \in EnvironmentIdStrings |-> Nil]
    /\ caeData = [i \in EnvironmentInst |-> EnvironmentEmptyData]
    /\ last = NoCall
    /\ probe = [i \in Inst |-> RaceIdle]

\* Create, lines 90-98: the host calls Create with a plan; Create parses the
\* registry ID and looks the registry up
ContainerRegistryCacheRule_Create_Registry(i) ==
    /\ probe[i].pc = "idle"
    /\ crData[i].id = NoId
    /\ \E cfg \in RaceConfigs, fault \in {"none", "registry"} :
        LET data == CacheRulePlanned(cfg)
        IN  probe' = [probe EXCEPT ![i] =
                        IF ~ParseRegistryID(data.container_registry_id).ok
                        THEN [pc |-> "returned", data |-> data, err |-> "ParseRegistryID"]
                        ELSE IF RegistryGetFails(data.container_registry_id, fault)
                        THEN [pc |-> "returned", data |-> data, err |-> "GettingRegistry"]
                        ELSE [pc |-> "check", data |-> data, err |-> "none"]]
    /\ UNCHANGED lifecycle

\* Create, lines 100-116: the existence check
ContainerRegistryCacheRule_Create_Get(i) ==
    /\ probe[i].pc = "check"
    /\ \E fault \in {"none", "error"} :
        LET existing == GetResponse(crRemote, RaceId(probe[i].data), fault)
            check == CacheRuleExistenceCheck(existing)
        IN  probe' = [probe EXCEPT ![i] =
                        IF check # "nil"
                        THEN [@ EXCEPT !.pc = "returned", !.err = check]
                        ELSE [@ EXCEPT !.pc = "create"]]
    /\ UNCHANGED lifecycle

\* Create, lines 119-134: the create call, which puts the object whether or
\* not one is there
ContainerRegistryCacheRule_Create_CreateThenPoll(i) ==
    /\ probe[i].pc = "create"
    /\ \E fault \in {"none", "poll"} :
        LET data == probe[i].data
            idString == RaceId(data)
            id == ParseCacheRuleID(idString).id
            parameters == CacheRuleCreateParameters(id, data.source_repo, data.target_repo)
        IN  IF fault = "poll"
            THEN /\ probe' = [probe EXCEPT ![i] =
                                [@ EXCEPT !.pc = "returned", !.err = "Creating",
                                          !.data = CacheRuleCreateSetID(data, idString,
                                                                        "error")]]
                 /\ UNCHANGED crRemote
            ELSE /\ probe' = [probe EXCEPT ![i] = [@ EXCEPT !.pc = "setid"]]
                 /\ crRemote' = [crRemote EXCEPT ![idString] = parameters]
    /\ UNCHANGED <<rtype, crData, caeRemote, caeData, last>>

\* Create, lines 136-138: SetID and the return; the host keeps the ResourceData
ContainerRegistryCacheRule_Create_SetID(i) ==
    /\ probe[i].pc = "setid"
    /\ LET data == CacheRuleCreateSetID(probe[i].data, RaceId(probe[i].data), "none")
       IN  /\ probe' = [probe EXCEPT ![i] =
                            [@ EXCEPT !.pc = "returned", !.err = "nil", !.data = data]]
           /\ crData' = [crData EXCEPT ![i] = data]
    /\ UNCHANGED <<rtype, crRemote, caeRemote, caeData, last>>

RaceNext ==
    \E i \in Inst :
        \/ ContainerRegistryCacheRule_Create_Registry(i)
        \/ ContainerRegistryCacheRule_Create_Get(i)
        \/ ContainerRegistryCacheRule_Create_CreateThenPoll(i)
        \/ ContainerRegistryCacheRule_Create_SetID(i)

SpecRace == RaceInit /\ [][RaceNext]_vars

\* C17 as stated: when the Creates of two instances that resolve to the same
\* cache rule identifier are interleaved, at most one of them persists the
\* identifier, and the other fails with import-required.
C17_AtMostOneAdopts ==
    \A i, j \in Inst :
        (/\ i # j
         /\ probe[i].pc = "returned" /\ probe[j].pc = "returned"
         /\ probe[i].err = "nil"
         /\ RaceId(probe[i].data) = RaceId(probe[j].data)
         /\ probe[j].err \notin {"GettingRegistry", "CheckingPresence", "Creating"}) =>
            /\ probe[j].err = "RequiresImport"
            /\ crData[j].id # crData[i].id

----------------------------------------------------------------------------
(* Container registry credential set: the resource whose lifecycle is not
   implemented. The provider process runs one call on the resource; a panic
   ends the process *)

\* the lifecycle variables while no lifecycle handler of the two implemented
\* resources runs
NoLifecycle ==
    /\ rtype = "none"
    /\ crRemote = [k \in CacheRuleIdStrings |-> Nil]
    /\ crData = [i \in Inst |-> CacheRuleEmptyData]
    /\ caeRemote = [k \in EnvironmentIdStrings |-> Nil]
    /\ caeData = [i \in EnvironmentInst |-> EnvironmentEmptyData]
    /\ last = NoCall

CredentialSetNames == {"cs1", "cs2"}
LoginServers == {"docker.io", "ghcr.io"}
CredentialCounts == {1, 2}

\* credentialsets.CredentialSetId.ID
CredentialSetID_ID(registry, name) ==
    <<"subscriptions", subscriptionId, "resourceGroups", "g1",
      "providers", "Microsoft.ContainerRegistry", "registries", registry,
      "credentialSets", name>>

CredentialSetIdStrings ==
    {CredentialSetID_ID(r, n) : r \in RegistryNames, n \in CredentialSetNames}

\* ContainerRegistryCredentialSetModel, under the identifier of ResourceData
CredentialSetData ==
    {d \in [id : {NoId} \cup CredentialSetIdStrings, name : CredentialSetNames,
            container_registry_id : RegistryIdStrings, login_server : LoginServers,
            credential : CredentialCounts] :
        d.id \in {NoId, CredentialSetID_ID(d.container_registry_id[8], d.name)}}

\* ContainerRegistryCredentialSet.Create: panic("unimplemented")
CredentialSetCreate(data) ==
    [panic |-> "unimplemented", returned |-> FALSE, err |-> "none", calls |-> <<>>,
     data |-> data]

\* ContainerRegistryCredentialSet.Read: panic("unimplemented")
CredentialSetRead(data) ==
    [panic |-> "unimplemented", returned |-> FALSE, err |-> "none", calls |-> <<>>,
     data |-> data]

\* a handler that returns nil without doing anything
CredentialSetUpdateReturnsNil(data) ==
    [panic |-> "none", returned |-> TRUE, err |-> "nil", calls |-> <<>>, data |-> data]

\* ContainerRegistryCredentialSet.Update: panic("unimplemented")
CredentialSetUpdate(data) ==
    [panic |-> "unimplemented", returned |-> FALSE, err |-> "none", calls |-> <<>>,
     data |-> data]

\* ContainerRegistryCredentialSet.Delete: panic("unimplemented")
CredentialSetDelete(data) ==
    [panic |-> "unimplemented", returned |-> FALSE, err |-> "none", calls |-> <<>>,
     data |-> data]

\* the process after a call: the ResourceData handed to the handler and the
\* one it leaves, the state the host holds (it persists what a handler
\* leaves only when the handler returns nil), and how the call ended
CredentialSetCalled(op, handed, r) ==
    [state |-> IF r.returned /\ r.err = "nil" THEN r.data ELSE probe.state,
     before |-> probe.state, handed |-> handed, left |-> r.data, op |-> op,
     panic |-> r.panic, returned |-> r.returned, calls |-> r.calls,
     alive |-> r.panic = "none"]

CredentialSetInit ==
    /\ NoLifecycle
    /\ \E data \in CredentialSetData :
        probe = [state |-> data, before |-> data, handed |-> data, left |-> data,
                 op |-> "none", panic |-> "none", returned |-> FALSE, calls |-> <<>>,
                 alive |-> TRUE]

\* the host calls Create on a resource that is not in the state
ContainerRegistryCredentialSet_Create ==
    /\ probe.alive
    /\ probe.state.id = NoId
    /\ probe' = CredentialSetCalled("Create", probe.state,
                                    CredentialSetCreate(probe.state))
    /\ UNCHANGED lifecycle

\* the host calls Read on a resource that is in the state
ContainerRegistryCredentialSet_Read ==
    /\ probe.alive
    /\ probe.state.id # NoId
    /\ probe' = CredentialSetCalled("Read", probe.state, CredentialSetRead(probe.state))
    /\ UNCHANGED lifecycle

\* login_server and credential are not force-new: the host calls Update with
\* the changed arguments
ContainerRegistryCredentialSet_Update ==
    /\ probe.alive
    /\ probe.state.id # NoId
    /\ \E server \in LoginServers, n \in CredentialCounts :
        LET planned == [probe.state EXCEPT !.login_server = server, !.credential = n]
        IN  /\ planned # probe.state
            /\ probe' = CredentialSetCalled("Update", planned, CredentialSetUpdate(planned))
    /\ UNCHANGED lifecycle

\* the host calls Delete on a resource that is in the state
ContainerRegistryCredentialSet_Delete ==
    /\ probe.alive
    /\ probe.state.id # NoId
    /\ probe' = CredentialSetCalled("Delete", probe.state,
                                    CredentialSetDelete(probe.state))
    /\ UNCHANGED lifecycle

CredentialSetNext ==
    \/ ContainerRegistryCredentialSet_Create
    \/ ContainerRegistryCredentialSet_Read
    \/ ContainerRegistryCredentialSet_Update
    \/ ContainerRegistryCredentialSet_Delete

SpecCredentialSet == CredentialSetInit /\ [][CredentialSetNext]_vars

\* C12: every call of Create, Read, Update or Delete of the credential set
\* resource panics: it does not return, it issues no remote call, it leaves
\* the ResourceData with its identifier as it was handed to it, and the
\* state is what it was before the call.
C12_CredentialSetPanics ==
    probe.op # "none" =>
        /\ probe.panic = "unimplemented"
        /\ ~probe.returned
        /\ ~probe.alive
        /\ probe.calls = <<>>
        /\ probe.left = probe.handed
        /\ probe.state = probe.before

\* an Update that plans a second credential panicked
C12_Witness ==
    /\ probe.op = "Update"
    /\ probe.panic = "unimplemented"
    /\ probe.handed.credential = 2
    /\ probe.state.credential = 1
    /\ probe.state.id = CredentialSetID_ID("r1", "cs1")

----------------------------------------------------------------------------
(* Firewall policy ID: a string is a leading separator and the segments the
   separators delimit; "/a/b/" is [lead |-> TRUE, segs |-> <<"a", "b", "">>] *)

EmptyString == [lead |-> FALSE, segs |-> <<>>]

\* NewFirewallPolicyID
NewFirewallPolicyID(resourceGroup, name) == [ResourceGroup |-> resourceGroup, Name |-> name]

\* a formatter that writes the resource group token in lower case
FirewallPolicyId_IDLowerCase(id, subscription) ==
    [lead |-> TRUE,
     segs |-> <<"subscriptions", subscription, "resourcegroups", id.ResourceGroup,
                "providers", "Microsoft.Network", "firewallPolicies", id.Name>>]

\* FirewallPolicyId.ID
FirewallPolicyId_ID(id, subscription) ==
    [lead |-> TRUE,
     segs |-> <<"subscriptions", subscription, "resourceGroups", id.ResourceGroup,
                "providers", "Microsoft.Network", "firewallPolicies", id.Name>>]

\* the literal tokens of a firewall policy ID, by position
FirewallPolicyLiterals ==
    [k \in {1, 3, 5, 6, 7} |->
        CASE k = 1 -> "subscriptions"
          [] k = 3 -> "resourceGroups"
          [] k = 5 -> "providers"
          [] k = 6 -> "Microsoft.Network"
          [] k = 7 -> "firewallPolicies"]

\* a parser that looks the components up by the token before them and
\* ignores every other segment
FirewallPolicyIDLenient(input) ==
    LET segs == input.segs
        After(token) ==
            IF \E k \in 1..(Len(segs) - 1) : segs[k] = token /\ segs[k + 1] # ""
            THEN segs[(CHOOSE k \in 1..(Len(segs) - 1) : segs[k] = token /\ segs[k + 1] # "") + 1]
            ELSE ""
    IN  IF After("subscriptions") = "" \/ After("resourceGroups") = ""
           \/ After("firewallPolicies") = ""
        THEN [ok |-> FALSE, id |-> Nil]
        ELSE [ok |-> TRUE,
              id |-> NewFirewallPolicyID(After("resourceGroups"), After("firewallPolicies"))]

\* FirewallPolicyID: the parser. It fails on the empty string, on a missing
\* leading separator, on an empty segment, on a missing or an extra segment
\* and on a literal token that does not match
FirewallPolicyID(input) ==
    LET segs == input.segs
        fail == [ok |-> FALSE, id |-> Nil]
    IN  IF input = EmptyString THEN fail
        ELSE IF ~input.lead THEN fail
        ELSE IF \E k \in 1..Len(segs) : segs[k] = "" THEN fail
        ELSE IF Len(segs) < 8 THEN fail
        ELSE IF Len(segs) > 8 THEN fail
        ELSE IF \E k \in DOMAIN FirewallPolicyLiterals : segs[k] # FirewallPolicyLiterals[k]
        THEN fail
        ELSE [ok |-> TRUE, id |-> NewFirewallPolicyID(segs[4], segs[8])]

\* TestFirewallPolicyID: the inputs the test expects an error for
FirewallPolicyMalformed ==
    LET sub == "00000000-0000-0000-0000-000000000000"
    IN  {EmptyString,
         [lead |-> TRUE, segs |-> <<"subscriptions", sub>>],
         [lead |-> TRUE, segs |-> <<"subscriptions", sub, "resourceGroups", "">>],
         [lead |-> TRUE, segs |-> <<"subscriptions", sub, "resourceGroups", "group1", "">>],
         [lead |-> TRUE,
          segs |-> <<"subscriptions", sub, "resourceGroups", "group1", "providers",
                     "Microsoft.Network", "firewallPolicies">>],
         [lead |-> TRUE,
          segs |-> <<"subscriptions", sub, "resourceGroups", "group1", "providers",
                     "Microsoft.Network", "foo", "bar", "firewallPolicies", "policy1">>],
         [lead |-> FALSE,
          segs |-> <<"subscriptions", sub, "resourceGroups", "group1", "providers",
                     "Microsoft.Network", "firewallPolicies", "policy1">>]}

SubscriptionIds ==
    {"12345678-1234-5678-1234-123456789012", "00000000-0000-0000-0000-000000000000"}
PolicyGroups == {"group1", "group2"}
PolicyNames == {"policy1", "policy2"}

\* the segments a malformed ID carries in place of the expected ones
WrongSegments == {"foo", "resourcegroups", "Microsoft.Compute"}

\* how many times an ID is edited before it is parsed
MaxEdits == 2

Unparsed == [ok |-> FALSE, id |-> Nil, pending |-> TRUE]

IdInit ==
    /\ rtype = "none"
    /\ crRemote = [k \in CacheRuleIdStrings |-> Nil]
    /\ crData = [i \in Inst |-> CacheRuleEmptyData]
    /\ caeRemote = [k \in EnvironmentIdStrings |-> Nil]
    /\ caeData = [i \in EnvironmentInst |-> EnvironmentEmptyData]
    /\ last = NoCall
    /\ probe = [path |-> EmptyString, origin |-> NoPlan, edits |-> 0, parsed |-> Unparsed]

\* a caller formats the ID of a policy
FormatID ==
    /\ \E sub \in SubscriptionIds, g \in PolicyGroups, n \in PolicyNames :
        probe' = [path |-> FirewallPolicyId_ID(NewFirewallPolicyID(g, n), sub),
                  origin |-> [subscription |-> sub, group |-> g, name |-> n],
                  edits |-> 0, parsed |-> Unparsed]
    /\ UNCHANGED lifecycle

Edited(path) ==
    [probe EXCEPT !.path = path, !.edits = @ + 1, !.parsed = Unparsed]

\* the ID is cut after its first k segments, with or without a trailing separator
TruncateID ==
    /\ probe.edits < MaxEdits
    /\ \E k \in 0..Len(probe.path.segs), trailing \in BOOLEAN :
        /\ k < Len(probe.path.segs)
        /\ probe' = Edited([probe.path EXCEPT
                                !.segs = IF trailing THEN SubSeq(@, 1, k) \o <<"">>
                                         ELSE SubSeq(@, 1, k)])
    /\ UNCHANGED lifecycle

\* the ID is replaced by the empty string
ClearID ==
    /\ probe.edits < MaxEdits
    /\ probe' = Edited(EmptyString)
    /\ UNCHANGED lifecycle

\* the ID loses its leading separator
DropLeadingSeparator ==
    /\ probe.edits < MaxEdits
    /\ probe.path.lead
    /\ probe' = Edited([probe.path EXCEPT !.lead = FALSE])
    /\ UNCHANGED lifecycle

\* two more segments are put into the ID after its first k segments
InsertSegments ==
    /\ probe.edits < MaxEdits
    /\ \E k \in 0..Len(probe.path.segs) :
        probe' = Edited([probe.path EXCEPT
                            !.segs = SubSeq(@, 1, k) \o <<"foo", "bar">>
                                        \o SubSeq(@, k + 1, Len(@))])
    /\ UNCHANGED lifecycle

\* one segment of the ID is replaced by another
ReplaceSegment ==
    /\ probe.edits < MaxEdits
    /\ \E k \in 1..Len(probe.path.segs), w \in WrongSegments :
        /\ probe.path.segs[k] # w
        /\ probe' = Edited([probe.path EXCEPT !.segs[k] = w])
    /\ UNCHANGED lifecycle

\* the ID is parsed
ParseID ==
    /\ probe.parsed = Unparsed
    /\ probe' = [probe EXCEPT !.parsed = FirewallPolicyID(probe.path)]
    /\ UNCHANGED lifecycle

IdNext ==
    \/ FormatID
    \/ TruncateID
    \/ ClearID
    \/ DropLeadingSeparator
    \/ InsertSegments
    \/ ReplaceSegment
    \/ ParseID

SpecId == IdInit /\ [][IdNext]_vars

\* the ID was formatted from components, left as it was, and parsed
ParsedAsFormatted ==
    probe.origin # NoPlan /\ probe.edits = 0 /\ probe.parsed # Unparsed

\* C8: parsing the string NewFirewallPolicyID(group, name).ID(subscription)
\* succeeds and yields the same ResourceGroup and Name, and the
\* string is /subscriptions/{sub}/resourceGroups/{group}/providers/
\* Microsoft.Network/firewallPolicies/{name}.
C8_FormatParseRoundTrip ==
    ParsedAsFormatted =>
        /\ probe.parsed.ok
        /\ probe.parsed.id.ResourceGroup = probe.origin.group
        /\ probe.parsed.id.Name = probe.origin.name
        /\ probe.path.lead
        /\ probe.path.segs =
              <<"subscriptions", probe.origin.subscription,
                "resourceGroups", probe.origin.group,
                "providers", "Microsoft.Network",
                "firewallPolicies", probe.origin.name>>

\* the ID of the formatter test was formatted and parsed
C8_Witness ==
    /\ ParsedAsFormatted
    /\ probe.origin = [subscription |-> "12345678-1234-5678-1234-123456789012",
                        group |-> "group1", name |-> "policy1"]
    /\ probe.parsed.ok

\* the string is a firewall policy ID of the documented shape: the format of
\* the non-empty components found at its variable positions
DocumentedShape(path) ==
    /\ Len(path.segs) = 8
    /\ path.segs[2] # "" /\ path.segs[4] # "" /\ path.segs[8] # ""
    /\ path = FirewallPolicyId_ID(NewFirewallPolicyID(path.segs[4], path.segs[8]),
                                   path.segs[2])

\* C9: parsing returns an error and no identifier for every malformed input
\* (the empty string, no resource group segment, an empty resource group
\* value, no policy name, extra segments, no leading slash) and succeeds only
\* for a path of the documented shape.
C9_ParseRejectsMalformed ==
    probe.parsed # Unparsed =>
        /\ probe.parsed.ok <=> DocumentedShape(probe.path)
        /\ ~probe.parsed.ok => probe.parsed.id = Nil
        /\ probe.path \in FirewallPolicyMalformed => ~probe.parsed.ok

\* the ID with segments between the namespace and firewallPolicies was refused
C9_Witness ==
    /\ probe.parsed # Unparsed
    /\ ~probe.parsed.ok
    /\ probe.path.lead
    /\ probe.path.segs =
          <<"subscriptions", "00000000-0000-0000-0000-000000000000",
            "resourceGroups", "group1", "providers", "Microsoft.Network",
            "foo", "bar", "firewallPolicies", "policy1">>

----------------------------------------------------------------------------
(* Cache rule name validator: a name is the sequence of its characters *)

Letters ==
    {"a", "b", "c", "d", "e", "f", "g", "h", "i", "j", "k", "l", "m", "n", "o", "p",
     "q", "r", "s", "t", "u", "v", "w", "x", "y", "z",
     "A", "B", "C", "D", "E", "F", "G", "H", "I", "J", "K", "L", "M", "N", "O", "P",
     "Q", "R", "S", "T", "U", "V", "W", "X", "Y", "Z"}
Digits == {"0", "1", "2", "3", "4", "5", "6", "7", "8", "9"}

MinNameLength == 5
MaxNameLength == 49

\* the length rule of the name argument of the resource, 5 to 40
NameLengthErrorOfSchema(name) ==
    IF Len(name) < 5 \/ Len(name) > 40 THEN 1 ELSE 0

\* the length rule of the validator
NameLengthError(name) ==
    IF Len(name) < MinNameLength \/ Len(name) > MaxNameLength THEN 1 ELSE 0

\* the character rule of the validator: one or more letters, digits, hyphens
NameCharacterError(name) ==
    IF Len(name) >= 1
       /\ \A k \in 1..Len(name) : name[k] \in Letters \cup Digits \cup {"-"}
    THEN 0 ELSE 1

\* validate.ContainerRegistryCacheRuleName: the number of errors it returns
ContainerRegistryCacheRuleName(name) == NameLengthError(name) + NameCharacterError(name)

\* TestAccContainerRegistryCacheRuleName_validation: the cases of the test
NameTestCases ==
    {[Value |->
        <<>>,
      ErrCount |-> 2],
     [Value |->
        <<"f", "o", "u", "r">>,
      ErrCount |-> 1],
     [Value |->
        <<"5", "f", "i", "v", "e">>,
      ErrCount |-> 0],
     [Value |->
        <<"h", "e", "l", "l", "o", "-", "w", "o", "r", "l", "d">>,
      ErrCount |-> 0],
     [Value |->
        <<"h", "e", "l", "l", "o", "-", "w", "o", "r", "l", "d", "-", "f", "o",
          "o", "-", "b", "a", "r", "-", "1", "2", "3", "4", "5">>,
      ErrCount |-> 0],
     [Value |->
        <<"h", "e", "l", "l", "o", "_", "w", "o", "r", "l", "d">>,
      ErrCount |-> 1],
     [Value |->
        <<"h", "e", "l", "l", "o", "W", "o", "r", "l", "d">>,
      ErrCount |-> 0],
     [Value |->
        <<"h", "e", "l", "l", "o", "w", "o", "r", "l", "d", "1", "2">>,
      ErrCount |-> 0],
     [Value |->
        <<"h", "e", "l", "l", "o", "@", "w", "o", "r", "l", "d">>,
      ErrCount |-> 1],
     [Value |->
        <<"q", "f", "v", "b", "d", "s", "b", "v", "i", "p", "q", "d", "b", "w",
          "s", "b", "d", "d", "b", "d", "c", "w", "q", "f", "f", "e", "w", "s",
          "q", "w", "c", "d", "w", "2", "1", "d", "d", "w", "q", "w", "d", "3",
          "3", "2", "4", "1", "2", "0">>,
      ErrCount |-> 0],
     [Value |->
        <<"q", "f", "v", "b", "d", "s", "b", "v", "i", "p", "q", "d", "b", "w",
          "s", "b", "d", "d", "b", "d", "c", "w", "q", "f", "f", "e", "w", "s",
          "q", "w", "c", "d", "w", "2", "1", "d", "d", "w", "q", "w", "d", "3",
          "3", "2", "4", "1", "2", "0", "2">>,
      ErrCount |-> 0],
     [Value |->
        <<"q", "f", "v", "b", "d", "s", "b", "v", "i", "p", "q", "d", "b", "w",
          "s", "b", "d", "d", "b", "d", "c", "w", "q", "f", "j", "j", "f", "e",
          "w", "s", "q", "w", "c", "d", "w", "2", "1", "d", "d", "w", "q", "w",
          "d", "3", "3", "2", "4", "1", "2", "0">>,
      ErrCount |-> 1]}

\* the longest name the validator is given
MaxProbeLength == 51

\* n times the character c
Repeat(c, n) == [k \in 1..n |-> c]

\* the names the validator is given: the names of the test, the names of one
\* repeated character, and those with one character replaced
NameInputs ==
    {tc.Value : tc \in NameTestCases}
    \cup {Repeat(c, n) : c \in {"a", "Z", "7", "-"}, n \in 0..MaxProbeLength}
    \cup {[Repeat(c, n) EXCEPT ![k] = b] :
            c \in {"a", "-"}, n \in {1, 4, 5, 6, 48, 49, 50, MaxProbeLength},
            k \in {1, 3, 5, 49}, b \in {"_", "@", " ", "."}}

NameInit ==
    /\ rtype = "none"
    /\ crRemote = [k \in CacheRuleIdStrings |-> Nil]
    /\ crData = [i \in Inst |-> CacheRuleEmptyData]
    /\ caeRemote = [k \in EnvironmentIdStrings |-> Nil]
    /\ caeData = [i \in EnvironmentInst |-> EnvironmentEmptyData]
    /\ last = NoCall
    /\ \E name \in NameInputs :
        probe = [name |-> name, validated |-> FALSE, errors |-> 0,
                 schemaValidated |-> FALSE, schemaErrors |-> 0]

\* the validator is applied to the name
ValidateName ==
    /\ ~probe.validated
    /\ probe' = [probe EXCEPT !.validated = TRUE,
                              !.errors = ContainerRegistryCacheRuleName(probe.name)]
    /\ UNCHANGED lifecycle

\* Arguments, line 33: validation.StringLenBetween(5, 40), the number of
\* errors the ValidateFunc of the name argument returns
CacheRuleNameSchema(name) ==
    IF Len(name) < 5 \/ Len(name) > 40 THEN 1 ELSE 0

\* the host validates the name of a configuration against the schema
ContainerRegistryCacheRule_ValidateName ==
    /\ ~probe.schemaValidated
    /\ probe' = [probe EXCEPT !.schemaValidated = TRUE,
                              !.schemaErrors = CacheRuleNameSchema(probe.name)]
    /\ UNCHANGED lifecycle

NameNext ==
    \/ ValidateName
    \/ ContainerRegistryCacheRule_ValidateName

SpecName == NameInit /\ [][NameNext]_vars

\* the name is made of letters, digits and hyphens only
OnlyAllowedCharacters(name) ==
    \A k \in 1..Len(name) : name[k] \in Letters \cup Digits \cup {"-"}

Contains(name, c) == \E k \in 1..Len(name) : name[k] = c

\* C10: the validator returns no error for a name of length 5 to 49 made of
\* letters, digits and hyphens; one error for such a name of length 4 or 50;
\* one error for a name of valid length with an underscore or an '@'; two
\* errors for the empty name; and the count the test expects for each of
\* its cases.
C10_NameValidator ==
    probe.validated =>
        /\ (Len(probe.name) \in 5..49 /\ OnlyAllowedCharacters(probe.name))
              => probe.errors = 0
        /\ (Len(probe.name) \in {4, 50} /\ OnlyAllowedCharacters(probe.name))
              => probe.errors = 1
        /\ (Len(probe.name) \in 5..49
              /\ (Contains(probe.name, "_") \/ Contains(probe.name, "@")))
              => probe.errors = 1
        /\ probe.name = <<>> => probe.errors = 2
        /\ \A tc \in NameTestCases :
              tc.Value = probe.name => probe.errors = tc.ErrCount

\* the name with an underscore of the test was validated
C10_Witness ==
    /\ probe.validated
    /\ probe.errors = 1
    /\ probe.name = <<"h", "e", "l", "l", "o", "_", "w", "o", "r", "l", "d">>

\* C19 as stated: the schema of the cache rule resource accepts a name exactly
\* when the name validator accepts it.
C19_SchemaMatchesValidator ==
    (probe.validated /\ probe.schemaValidated) =>
        (probe.schemaErrors = 0 <=> probe.errors = 0)

----------------------------------------------------------------------------
(* Managed HSM URIs: a URI and a domain suffix are sequences of tokens, the
   labels of a host name and the separators between the parts of a URI *)

\* environments.Environment: whether ManagedHSM.DomainSuffix() finds a suffix,
\* and the suffix
HSMEnvironments ==
    {[found |-> FALSE, suffix |-> <<>>],
     [found |-> TRUE, suffix |-> <<"managedhsm", ".", "azure", ".", "net">>],
     [found |-> TRUE, suffix |-> <<"managedhsm", ".", "usgovcloudapi", ".", "net">>],
     [found |-> TRUE, suffix |-> <<>>]}

\* a DomainSuffixForManagedHSM without the default
DomainSuffixForManagedHSMNoDefault(env) == env.suffix

\* DomainSuffixForManagedHSM
DomainSuffixForManagedHSM(env) ==
    IF ~env.found THEN <<"managedhsm", ".", "azure", ".", "net">> ELSE env.suffix

\* the tokens that end the host of a URI
HostEnd == {":", "/"}

\* the index of the first token of `seq` from `from` on that is in `set`,
\* Len(seq) + 1 if there is none
IndexOf(seq, set, from) ==
    IF \E k \in from..Len(seq) : seq[k] \in set
    THEN CHOOSE k \in from..Len(seq) :
            seq[k] \in set /\ \A j \in from..(k - 1) : seq[j] \notin set
    ELSE Len(seq) + 1

\* url.Parse and URL.Hostname: a URI without a scheme has no host, and a
\* colon in its first path segment is an error; the host runs from the scheme
\* to the port or the path; an escape that is no escape and a port that is no
\* number are errors
UrlParse(uri) ==
    LET hasScheme == Len(uri) >= 1 /\ uri[1] = "https://"
        hostEnd == IndexOf(uri, HostEnd, 2)
        host == IF hasScheme THEN SubSeq(uri, 2, hostEnd - 1) ELSE <<>>
        badEscape == \E k \in 1..Len(uri) : uri[k] = "%zz"
        badPort == /\ hasScheme
                   /\ hostEnd <= Len(uri)
                   /\ uri[hostEnd] = ":"
                   /\ hostEnd + 1 <= Len(uri)
                   /\ uri[hostEnd + 1] \notin {"443", "/"}
        badSegment == /\ ~hasScheme
                      /\ IndexOf(uri, {":"}, 1) < IndexOf(uri, {"/"}, 1)
    IN  IF badEscape \/ badPort \/ badSegment
        THEN [err |-> TRUE, hostname |-> <<>>]
        ELSE [err |-> FALSE, hostname |-> host]

\* strings.Cut(s, ".")
Cut(host) ==
    LET k == IndexOf(host, {"."}, 1)
    IN  IF k > Len(host)
        THEN [before |-> host, after |-> <<>>, found |-> FALSE]
        ELSE [before |-> SubSeq(host, 1, k - 1), after |-> SubSeq(host, k + 1, Len(host)),
              found |-> TRUE]

\* IsManagedHSMURI
IsManagedHSMURI(env, uri) ==
    LET url == UrlParse(uri)
        cut == Cut(url.hostname)
        expectedDomainSuffix == DomainSuffixForManagedHSM(env)
    IN  IF url.err
        THEN [ok |-> FALSE, err |-> "Parsing", instanceName |-> <<>>, domainSuffix |-> <<>>]
        ELSE IF ~cut.found
        THEN [ok |-> FALSE, err |-> "Components", instanceName |-> <<>>,
              domainSuffix |-> <<>>]
        ELSE IF cut.after = expectedDomainSuffix
        THEN [ok |-> TRUE, err |-> "nil", instanceName |-> cut.before,
              domainSuffix |-> cut.after]
        ELSE [ok |-> FALSE, err |-> "nil", instanceName |-> <<>>, domainSuffix |-> <<>>]

\* how many tokens come before the domain of a host name
MaxPrefixLength == 2

\* the tokens before the domain of a host name: instance names, separators,
\* an escape that does not parse
HostPrefixes ==
    UNION {[1..n -> {"kv", ".", "%zz"}] : n \in 0..MaxPrefixLength}

HostDomains ==
    {<<>>, <<".">>, <<"managedhsm", ".", "azure", ".", "net">>,
     <<"managedhsm", ".", "usgovcloudapi", ".", "net">>,
     <<"vault", ".", "azure", ".", "net">>,
     <<"managedhsm", ".", "azure", ".", "net", ".">>}

\* what follows the host
UriTails == {<<>>, <<"/">>, <<"/", "keys">>, <<":", "443">>, <<":", "443", "/", "keys">>,
             <<":", "port">>, <<":">>}

HSMUris ==
    {scheme \o prefix \o domain \o tail :
        scheme \in {<<>>, <<"https://">>}, prefix \in HostPrefixes,
        domain \in HostDomains, tail \in UriTails}

NotCalled == [ok |-> FALSE, err |-> "none", instanceName |-> <<>>, domainSuffix |-> <<>>]

HSMInit ==
    /\ NoLifecycle
    /\ \E env \in HSMEnvironments, uri \in HSMUris :
        probe = [env |-> env, uri |-> uri, result |-> NotCalled]

\* a caller asks whether the URI is the URI of a Managed HSM
CallIsManagedHSMURI ==
    /\ probe.result = NotCalled
    /\ probe' = [probe EXCEPT !.result = IsManagedHSMURI(probe.env, probe.uri)]
    /\ UNCHANGED lifecycle

HSMNext == CallIsManagedHSMURI

SpecHSM == HSMInit /\ [][HSMNext]_vars

\* the host name of the URI has a first dot at position k
FirstDotAt(host, k) ==
    /\ k \in 1..Len(host)
    /\ host[k] = "."
    /\ \A j \in 1..(k - 1) : host[j] # "."

\* the result of IsManagedHSMURI, but for the case of an empty domain suffix:
\* an error with false and empty names when the URI does not parse or its
\* host name has no dot; otherwise true without an error exactly when the
\* part of the host name after its first dot is the domain suffix of the
\* environment (managedhsm.azure.net when it defines none), with the instance
\* name the part before the dot and the suffix the part after it; false, no
\* error and empty names in every other case
HSMResultAsDocumented ==
    LET r == probe.result
        url == UrlParse(probe.uri)
        host == url.hostname
        expected == IF probe.env.found THEN probe.env.suffix
                    ELSE <<"managedhsm", ".", "azure", ".", "net">>
        empty == r.instanceName = <<>> /\ r.domainSuffix = <<>>
    IN  /\ (url.err \/ ~\E k \in 1..Len(host) : host[k] = ".") =>
              (r.err \notin {"nil", "none"} /\ ~r.ok /\ empty)
        /\ (~url.err /\ \E k \in 1..Len(host) : host[k] = ".") =>
              /\ r.err = "nil"
              /\ r.ok <=> \E k \in 1..Len(host) :
                            FirstDotAt(host, k) /\ SubSeq(host, k + 1, Len(host)) = expected
              /\ r.ok => /\ r.instanceName \o <<".">> \o r.domainSuffix = host
                          /\ \A j \in 1..Len(r.instanceName) : r.instanceName[j] # "."
                          /\ r.domainSuffix = expected
              /\ ~r.ok => empty
        /\ ~(r.ok /\ r.err # "nil")

\* C20 as stated: the result is as documented, and IsManagedHSMURI never
\* returns true with an empty domain suffix.
C20_AsStated ==
    probe.result # NotCalled =>
        /\ HSMResultAsDocumented
        /\ probe.result.ok => probe.result.domainSuffix # <<>>

\* C20 amended: the result is as documented; IsManagedHSMURI returns true
\* with an empty domain suffix only for an environment whose Managed HSM
\* domain suffix is the empty string and a host name that ends in its first
\* dot.
C20_IsManagedHSMURI ==
    probe.result # NotCalled =>
        /\ HSMResultAsDocumented
        /\ (probe.result.ok /\ probe.result.domainSuffix = <<>>) =>
              /\ probe.env = [found |-> TRUE, suffix |-> <<>>]
              /\ UrlParse(probe.uri).hostname = probe.result.instanceName \o <<".">>

\* a URI of the default domain, with a port and a path, was recognised in an
\* environment that defines no suffix
C20_Witness ==
    /\ probe.result.ok
    /\ ~probe.env.found
    /\ probe.uri = <<"https://", "kv", ".", "managedhsm", ".", "azure", ".", "net",
                      ":", "443", "/", "keys">>
    /\ probe.result.instanceName = <<"kv">>
    /\ probe.result.domainSuffix = <<"managedhsm", ".", "azure", ".", "net">>

====
